---- MODULE Spec2Model ----
(***************************************************************************)
(* Model of the transcript pipeline of src/server/index.js: the persisted  *)
(* ledger of processed transcripts (processedTranscriptsData and its       *)
(* file), the in-memory Set processedTranscriptIds, and the entry points   *)
(* that run the pipeline: the cron callback, POST /api/auto-process-all,   *)
(* POST /api/webhook/notion-transcript (with and without pageId) and       *)
(* POST /api/process-transcript.  A handler is a sequence of steps, one    *)
(* per await of an external call; handlers interleave at those awaits.     *)
(***************************************************************************)
EXTENDS Integers, Sequences, FiniteSets, TLC

\* ------------------------------------------------------------- bounds
NumPages == 2        \* pages in the Notion database
MaxTime == 1         \* the clock runs over 0..MaxTime
MaxStories == 1      \* stories one completion can return
MaxPasses == 2       \* pipeline passes started by one server process

\* ---------------------------------------------------------- constants
MinWords == 50       \* wordCount > 50
MinChars == 100      \* transcript.length < 100
NoDate == -1         \* the date '' of the initial ledger: new Date('') is invalid

Pages == 1..NumPages
Times == 0..MaxTime
Slots == {"s1", "s2"}

\* The entry points.  The first four consult the ledger.
LedgerKinds == {"cron", "all", "hookAll", "hookPage"}
Kinds == LedgerKinds \cup {"manual"}

\* What notion.blocks.children.list can return for a page: of the text of
\* its paragraph blocks (p*) and of its paragraph and heading blocks (h*), the
\* value of content.trim().split(' ').length (wc), the length (len) and the
\* number of whitespace-separated words (words).  split(' ') cuts at single
\* spaces only: the newline that ends a block joins two words into one piece,
\* and a run of spaces yields empty pieces, so that a text can have more
\* pieces than words (the headings of the fourth) or fewer (the fifth).
Contents ==
  { [pwc |-> 50, plen |-> 300, hwc |-> 50, hlen |-> 300, pwords |-> 50, hwords |-> 50],
    [pwc |-> 51, plen |-> 300, hwc |-> 51, hlen |-> 300, pwords |-> 51, hwords |-> 51],
    [pwc |-> 51, plen |-> 60,  hwc |-> 51, hlen |-> 60,  pwords |-> 5,  hwords |-> 5],
    [pwc |-> 10, plen |-> 40,  hwc |-> 51, hlen |-> 300, pwords |-> 10, hwords |-> 26],
    [pwc |-> 40, plen |-> 300, hwc |-> 40, hlen |-> 300, pwords |-> 55, hwords |-> 55] }

\* No text
NoText == [wc |-> 0, len |-> 0, words |-> 0]

\* The text an entry point flattens from the blocks c: the webhook with a
\* pageId and GET /api/transcripts (from which the dashboard takes the text it
\* posts to /api/process-transcript) keep headings, the other loops keep
\* paragraphs only.
Flatten(kind, c) ==
  IF kind \in {"hookPage", "manual"}
  THEN [wc |-> c.hwc, len |-> c.hlen, words |-> c.hwords]
  ELSE [wc |-> c.pwc, len |-> c.plen, words |-> c.pwords]

\* if (wordCount > 50) in the loops over pages
Sufficient(text) == text.wc > MinWords

\* A guard that is never taken
TooShortNever(text) == FALSE

\* if (!transcript || transcript.length < 100) return null, in autoProcessTranscript
TooShort(text) == text.len < MinChars

Range(s) == {s[i] : i \in DOMAIN s}

\* Array.prototype.includes
Includes(arr, x) == \E i \in DOMAIN arr : arr[i] = x

\* Date comparison: a comparison with an invalid date is false.
DateLeq(a, b) == a /= NoDate /\ b /= NoDate /\ a <= b
DateGt(a, b) == a /= NoDate /\ b /= NoDate /\ a > b

\* ------------------------------------------------------------- ledger
\* processedTranscriptsData as the module sets it before any load
BlankData == [processedIds |-> <<>>, lastUpdated |-> NoDate, cutoffDate |-> NoDate]

\* A save that writes the ledger without touching lastUpdated
saveNoStamp(data, f, t, writeOk) ==
  [mem |-> data, file |-> IF writeOk THEN <<data>> ELSE f]

\* saveProcessedTranscripts: lastUpdated is set in memory, then the file is
\* rewritten wholesale; a failed write is caught and leaves the file as it was.
\* The file is <<>> when absent and <<data>> when present.
saveProcessedTranscripts(data, f, t, writeOk) ==
  LET d == [data EXCEPT !.lastUpdated = t]
  IN  [mem |-> d, file |-> IF writeOk THEN <<d>> ELSE f]

\* A load that treats an unreadable file like an absent one: a fresh ledger
\* is initialised and written over it
loadFailInitializes(f, t, readOk, writeOk) ==
  IF f /= <<>> /\ readOk
  THEN IF f[1].cutoffDate = NoDate
       THEN saveProcessedTranscripts([f[1] EXCEPT !.cutoffDate = t], f, t, writeOk)
       ELSE [mem |-> f[1], file |-> f]
  ELSE saveProcessedTranscripts([BlankData EXCEPT !.cutoffDate = t], f, t, writeOk)

\* A load that restores the cutoff date of the file and starts with no ids
loadCutoffOnly(f, t, readOk, writeOk) ==
  IF f /= <<>>
  THEN IF ~readOk
       THEN [mem |-> BlankData, file |-> f]
       ELSE IF f[1].cutoffDate = NoDate
            THEN saveProcessedTranscripts([f[1] EXCEPT !.cutoffDate = t], f, t, writeOk)
            ELSE [mem |-> [f[1] EXCEPT !.processedIds = <<>>], file |-> f]
  ELSE saveProcessedTranscripts([BlankData EXCEPT !.cutoffDate = t], f, t, writeOk)

\* loadProcessedTranscripts on a fresh process (data = BlankData)
loadProcessedTranscripts(f, t, readOk, writeOk) ==
  IF f /= <<>>
  THEN IF ~readOk
       THEN [mem |-> BlankData, file |-> f]
       ELSE IF f[1].cutoffDate = NoDate
            THEN saveProcessedTranscripts([f[1] EXCEPT !.cutoffDate = t], f, t, writeOk)
            ELSE [mem |-> f[1], file |-> f]
  ELSE saveProcessedTranscripts([BlankData EXCEPT !.cutoffDate = t], f, t, writeOk)

\* A test that lets through a page created exactly at the cutoff date
isTranscriptNewStrict(data, id, created_time) ==
  IF Includes(data.processedIds, id)
  THEN FALSE
  ELSE IF DateLeq(created_time, data.cutoffDate) /\ created_time /= data.cutoffDate
       THEN FALSE
       ELSE TRUE

isTranscriptNew(data, id, created_time) ==
  IF Includes(data.processedIds, id)
  THEN FALSE
  ELSE IF DateLeq(created_time, data.cutoffDate)
       THEN FALSE
       ELSE TRUE

\* A mark that pushes the id without looking for it first
markAlways(data, f, pageId, t, writeOk) ==
  saveProcessedTranscripts(
    [data EXCEPT !.processedIds = Append(@, pageId)], f, t, writeOk)

\* A mark that keeps the id only when the file was written
markIfSaved(data, f, pageId, t, writeOk) ==
  IF ~Includes(data.processedIds, pageId) /\ writeOk
  THEN saveProcessedTranscripts(
         [data EXCEPT !.processedIds = Append(@, pageId)], f, t, writeOk)
  ELSE [mem |-> data, file |-> f]

markTranscriptProcessed(data, f, pageId, t, writeOk) ==
  IF ~Includes(data.processedIds, pageId)
  THEN saveProcessedTranscripts(
         [data EXCEPT !.processedIds = Append(@, pageId)], f, t, writeOk)
  ELSE [mem |-> data, file |-> f]

\* -------------------------------------------------------------- state
\* ------------------------------------------------- single calls: texts
\* A text is the sequence of its pieces: a brace, a bracket, a code fence
\* ("fence" for three backticks, "fence.json" for three backticks and json), a
\* blank, a line break ("nl"), a key or value of JSON, or a word of prose.
MaxMs == 1
MaxCalls == 2
MaxAnswerStories == 2

IsWs(t) == t \in {" ", "nl"}

\* JSON object texts a model can answer with: without a stories key, with a
\* stories key that holds no array, and with an array of zero, one and two
\* stories, compact or spread over lines.
Objects ==
  { <<"{", "summary", "}">>,
    <<"{", "stories", "text", "}">>,
    <<"{", "stories", "[", "]", "}">>,
    <<"{", "stories", "[", "{", "title", "}", "]", "}">>,
    <<"{", "nl", "stories", "[", "{", "title", "}", " ", "{", "title", "}", "]",
      "nl", "}">> }

Wrappings ==
  {"bare", "padded", "json", "jsonInline", "fence", "prose", "after", "braced", "refusal"}

\* The answer that has the object text J in wrapping w
Wrap(J, w) ==
  CASE w = "bare" -> J
    [] w = "padded" -> <<"nl">> \o J \o <<" ", "nl">>
    [] w = "json" -> <<"fence.json", "nl">> \o J \o <<"nl", "fence">>
    [] w = "jsonInline" -> <<"fence.json">> \o J \o <<"fence", "nl">>
    [] w = "fence" -> <<"fence", "nl">> \o J \o <<"nl", "fence">>
    [] w = "prose" -> <<"Here", " ", "is", " ", "the", " ", "JSON", "nl">> \o J
    [] w = "after" -> J \o <<"nl", "Done">>
    [] w = "braced" -> <<"Use", " ", "{", "curly", "}", " ", "braces", "nl">> \o J
    [] w = "refusal" -> <<"Sorry">>

\* String.prototype.trim
RECURSIVE TrimStart(_)
TrimStart(str) ==
  IF str /= <<>> /\ IsWs(Head(str)) THEN TrimStart(Tail(str)) ELSE str

RECURSIVE TrimEnd(_)
TrimEnd(str) ==
  IF str /= <<>> /\ IsWs(str[Len(str)])
  THEN TrimEnd(SubSeq(str, 1, Len(str) - 1))
  ELSE str

Trim(str) == TrimEnd(TrimStart(str))

\* str.startsWith(t) for a piece t; a text that starts with "fence.json"
\* starts with "fence" too
StartsWith(str, t) ==
  /\ str /= <<>>
  /\ Head(str) = t \/ (t = "fence" /\ Head(str) = "fence.json")

\* The two replace calls on a text that starts with a fence: the fence and
\* the blanks after it go, and so do a fence at the very end and the blanks
\* before it.
StripFence(str) ==
  LET open == TrimStart(Tail(str))
  IN  IF open /= <<>> /\ open[Len(open)] = "fence"
      THEN TrimEnd(SubSeq(open, 1, Len(open) - 1))
      ELSE open

\* indexOf and lastIndexOf, counting from 0, -1 if there is none
IndexOf(str, t) ==
  IF \E i \in DOMAIN str : str[i] = t
  THEN (CHOOSE i \in DOMAIN str :
          str[i] = t /\ \A j \in DOMAIN str : str[j] = t => i <= j) - 1
  ELSE -1

LastIndexOf(str, t) ==
  IF \E i \in DOMAIN str : str[i] = t
  THEN (CHOOSE i \in DOMAIN str :
          str[i] = t /\ \A j \in DOMAIN str : str[j] = t => j <= i) - 1
  ELSE -1

\* str.substring(a, b) for 0 <= a <= b
Substring(str, a, b) == SubSeq(str, a + 1, IF b > Len(str) THEN Len(str) ELSE b)

\* A cleaner that only trims
cleanResponseTrimOnly(raw) == Trim(raw)

\* The cleaning of the answer in autoProcessTranscript, up to JSON.parse
cleanResponse(raw) ==
  LET trimmed == Trim(raw)
      unfenced == IF StartsWith(trimmed, "fence.json") THEN StripFence(trimmed)
                  ELSE IF StartsWith(trimmed, "fence") THEN StripFence(trimmed)
                  ELSE trimmed
      jsonStart == IndexOf(unfenced, "{")
      jsonEnd == LastIndexOf(unfenced, "}")
      cut == IF jsonStart /= -1 /\ jsonEnd /= -1 /\ jsonEnd > jsonStart
             THEN Substring(unfenced, jsonStart, jsonEnd + 1)
             ELSE unfenced
      braceIndex == IndexOf(cut, "{")
  IN  IF ~StartsWith(cut, "{") /\ braceIndex /= -1
      THEN Substring(cut, braceIndex, Len(cut))
      ELSE cut

\* The pieces JSON knows besides braces and brackets
JsonPieces == {"stories", "summary", "title", "text"}

Opening(t) == IF t = "}" THEN "{" ELSE "["

\* The text str, without blanks, is JSON inside the open braces and brackets
\* of stack: they close in order, there is one value at the top and nothing
\* after it.
RECURSIVE WellFormed(_, _)
WellFormed(str, stack) ==
  IF str = <<>> THEN stack = <<>>
  ELSE LET t == Head(str)
       IN  IF t \in {"{", "["}
           THEN WellFormed(Tail(str), <<t>> \o stack)
           ELSE IF t \in {"}", "]"}
           THEN /\ stack /= <<>>
                /\ Head(stack) = Opening(t)
                /\ Len(stack) = 1 => Tail(str) = <<>>
                /\ WellFormed(Tail(str), Tail(stack))
           ELSE /\ t \in JsonPieces
                /\ stack /= <<>>
                /\ WellFormed(Tail(str), stack)

\* JSON.parse: blanks and line breaks between the pieces mean nothing, the
\* value is the pieces without them; anything that is not JSON is a SyntaxError.
JSONparse(str) ==
  LET pieces == SelectSeq(str, LAMBDA t : ~IsWs(t))
      ok == pieces /= <<>> /\ WellFormed(pieces, <<>>)
  IN  [ok |-> ok, value |-> IF ok THEN pieces ELSE <<>>]

\* How many braces and brackets are open before piece i of value
Depth(value, i) ==
  Cardinality({j \in 1..(i - 1) : value[j] \in {"{", "["}})
    - Cardinality({j \in 1..(i - 1) : value[j] \in {"}", "]"}})

\* result.stories && Array.isArray(result.stories): the number of elements of
\* the array under the key stories of the object, -1 if there is no such array
StoriesLength(value) ==
  IF \E i \in DOMAIN value :
       value[i] = "stories" /\ Depth(value, i) = 1 /\ i < Len(value) /\ value[i + 1] = "["
  THEN LET k == CHOOSE i \in DOMAIN value :
                   value[i] = "stories" /\ Depth(value, i) = 1 /\ value[i + 1] = "["
           end == CHOOSE e \in DOMAIN value :
                    /\ e > k + 1 /\ value[e] = "]" /\ Depth(value, e) = 2
                    /\ \A f \in DOMAIN value :
                         (f > k + 1 /\ value[f] = "]" /\ Depth(value, f) = 2) => e <= f
       IN  Cardinality({i \in (k + 2)..(end - 1) : value[i] = "{" /\ Depth(value, i) = 2})
  ELSE -1

\* The ids a story can get: [time |-> t, index |-> i] is `story-${t}-${i}`,
\* two such strings being equal exactly if both numbers are.
StoryIds == [time : 0..MaxMs, index : 0..(MaxAnswerStories - 1)]

\* result.stories.map((story, index) => ({..., id: `story-${Date.now()}-${index}`})),
\* as a function from index to id: Date.now() is t for the first story, and
\* the clock may have moved on by adv for the ones after it.
stamp(n, t, adv) ==
  [index \in 0..(n - 1) |->
     [time |-> IF index = 0 THEN t ELSE t + adv, index |-> index]]

NoAnswer == [object |-> <<>>, wrapping |-> "none"]
NoResult == [ok |-> FALSE, value |-> <<>>, null |-> TRUE, ids |-> {}]

\* What autoProcessTranscript returns for the answer raw at time t: null
\* for a SyntaxError and for an object with no stories array, else the result
\* with its stories stamped.
processAnswer(raw, t, adv) ==
  LET parsed == JSONparse(cleanResponse(raw))
      n == IF parsed.ok THEN StoriesLength(parsed.value) ELSE -1
  IN  [ok |-> parsed.ok, value |-> parsed.value, null |-> n = -1,
       ids |-> IF n > 0 THEN {stamp(n, t, adv)[i] : i \in 0..(n - 1)} ELSE {}]

\* ------------------------------------------------- single calls: Slack
\* A webhook URL is the sequence of its parts.
SlackPrefix == <<"https://", "hooks.slack.com", "/services/">>

Urls ==
  { SlackPrefix \o <<"T0/B0/x">>,
    SlackPrefix,
    <<"https://", "hooks.slack.com", "/services">>,
    <<"http://", "hooks.slack.com", "/services/", "T0/B0/x">>,
    <<"https://", "hooks.slack.com.example.org", "/services/", "T0/B0/x">>,
    <<"https://", "hooks.slack.com", "/workflows/", "T0/B0/x">>,
    <<"https://", "example.org", "/hook">>,
    <<>> }

\* webhookUrl.startsWith(prefix)
UrlStartsWith(url, prefix) ==
  Len(url) >= Len(prefix) /\ SubSeq(url, 1, Len(prefix)) = prefix

\* A validation that looks for the host only
validWebhookHost(url) == \E i \in DOMAIN url : url[i] = "hooks.slack.com"

\* webhookUrl.startsWith('https://hooks.slack.com/services/')
validWebhook(url) == UrlStartsWith(url, SlackPrefix)

NoUrl == [isString |-> TRUE, text |-> <<>>]
NoSlackResult == [called |-> FALSE, fetched |-> FALSE, success |-> FALSE, error |-> "none"]

\* sendSlackNotification(story, url): a url that is no string throws at
\* webhookUrl.substring, one without the prefix at the validation, and both
\* end in the catch; otherwise fetch is called, and answers ok, answers with
\* another status, or throws.
sendSlackNotification(url, response) ==
  IF ~url.isString
  THEN [called |-> TRUE, fetched |-> FALSE, success |-> FALSE, error |-> "TypeError"]
  ELSE IF ~validWebhook(url.text)
  THEN [called |-> TRUE, fetched |-> FALSE, success |-> FALSE,
        error |-> "Invalid webhook URL format"]
  ELSE [called |-> TRUE, fetched |-> TRUE, success |-> response = "ok",
        error |-> CASE response = "ok" -> "none"
                    [] response = "404" -> "HTTP 404"
                    [] response = "500" -> "HTTP 500"
                    [] response = "throw" -> "fetch failed"]

\* ------------------------------------------- dispatch loops and deployment
MaxItems == 2

\* The entry points whose loop over the stories of a page can run: in the
\* cron callback and in the webhook without pageId the map over the stories
\* throws before the loop (`fathomShareUrl` is not defined there).
Dispatchers == {"manual", "hookPage", "all"}

\* What the Slack webhook can do to a POST: answer 200, answer 404 or 500, or
\* fail on the network ("throw")
Responses == {"ok", "404", "500", "throw"}

\* No dispatch is under way.  A dispatch has the kind of its entry point, the
\* number n of stories, the index i of the story at hand, its phase (a POST
\* awaited, the pacing delay awaited, or the loop done), the stories whose
\* POST is in flight, per story the response of the webhook, the result of
\* sendSlackNotification and whether the result was put on the story, the
\* counters of the handler, and whether it had a webhook URL (enabled).
NoDispatch ==
  [kind |-> "none", phase |-> "idle", n |-> 0, i |-> 0, inflight |-> {}, enabled |-> FALSE,
   responses |-> <<>>, results |-> <<>>, attached |-> <<>>, success |-> 0, failed |-> 0]

\* The URL the loops post to
ConfiguredUrl == [isString |-> TRUE, text |-> SlackPrefix \o <<"T0/B0/x">>]

\* A loop that posts the next story as soon as the webhook has answered
answeredNoPacing(d, response) ==
  LET r == sendSlackNotification(ConfiguredUrl, response)
  IN  [d EXCEPT !.phase = IF d.i < d.n THEN "post" ELSE "done",
                !.i = IF d.i < d.n THEN @ + 1 ELSE @,
                !.inflight = IF d.i < d.n THEN {d.i + 1} ELSE {},
                !.responses = Append(@, response),
                !.results = Append(@, r),
                !.attached = Append(@, d.kind = "manual"),
                !.success = IF d.kind /= "hookPage" /\ r.success THEN @ + 1 ELSE @,
                !.failed = IF d.kind /= "hookPage" /\ ~r.success THEN @ + 1 ELSE @]

\* A loop that counts the notifications that succeed and no others
answeredCountsSuccess(d, response) ==
  LET r == sendSlackNotification(ConfiguredUrl, response)
  IN  [d EXCEPT !.phase = "delay",
                !.inflight = {},
                !.responses = Append(@, response),
                !.results = Append(@, r),
                !.attached = Append(@, d.kind = "manual"),
                !.success = IF d.kind /= "hookPage" /\ r.success THEN @ + 1 ELSE @]

\* await sendSlackNotification(story, webhookUrl) returns in the loop of d:
\* /api/process-transcript puts the result on the story (story.slackStatus)
\* and in slackResults, /api/auto-process-all counts it, the webhook drops
\* it; then each awaits its setTimeout.
answered(d, response) ==
  LET r == sendSlackNotification(ConfiguredUrl, response)
  IN  [d EXCEPT !.phase = "delay",
                !.inflight = {},
                !.responses = Append(@, response),
                !.results = Append(@, r),
                !.attached = Append(@, d.kind = "manual"),
                !.success = IF d.kind /= "hookPage" /\ r.success THEN @ + 1 ELSE @,
                !.failed = IF d.kind /= "hookPage" /\ ~r.success THEN @ + 1 ELSE @]

\* jiraConfig.url as the sequence of its pieces
JiraUrls ==
  { <<"https://", "acme.atlassian.net">>,
    <<"acme.atlassian.net", "/">>,
    <<" ", "http://", "jira.acme.example", "/", " ">> }

\* jiraConfig.url.trim(), with https:// put before it unless it starts with
\* http, and with one slash at the end taken off
cleanUrl(url) ==
  LET t == Trim(url)
      u == IF t /= <<>> /\ Head(t) \in {"http://", "https://"} THEN t
           ELSE <<"https://">> \o t
  IN  IF u[Len(u)] = "/" THEN SubSeq(u, 1, Len(u) - 1) ELSE u

\* story.priority: a name, another string, the empty string, or no field
Priorities ==
  {"Highest", "High", "Medium", "Low", "Lowest", "Critical", "high", "", "undefined"}

\* A payload that carries every priority given
priorityFieldAlways(p) == IF p \in {"", "undefined"} THEN "omitted" ELSE p

\* jiraTicket.fields.priority: { name: story.priority } for one of the five
\* names, no field otherwise
priorityField(p) ==
  IF p \notin {"", "undefined"} /\ p \in {"Highest", "High", "Medium", "Low", "Lowest"}
  THEN p
  ELSE "omitted"

\* The statuses a Jira request is answered with here
AuthStatuses == {200, 401, 403, 404, 503}
CreateStatuses == {201, 400, 404}

\* A test that takes only the statuses from 500 on for failures
probeFailedFrom500(status) == status >= 500

\* !authTest.ok: the status is not in 200..299
probeFailed(status) == ~(status >= 200 /\ status <= 299)

\* No deployment is under way.  A deployment has the await it is at (pc), the
\* cleaned URL, the priority of the story, whether the story has the arrays
\* the description is built from, the requests sent so far, the status and the
\* kind of body of the answer to the probe, the priority field of the payload
\* and the response to the caller (error "none" with status 200).
NoDeploy ==
  [pc |-> "idle", url |-> <<>>, priority |-> "undefined", complete |-> TRUE,
   sent |-> <<>>, authStatus |-> 0, html |-> FALSE, payloadPriority |-> "omitted",
   status |-> 0, error |-> "none"]

\* ------------------------------------------------------------ rich text
MaxTextLen == 4      \* pieces of a text given to textToADF
MaxBlocks == 2       \* blocks of a page given to the extraction

\* The pieces of a text given to textToADF: a line break, a blank, one of the
\* five marker glyphs of the function ("marker"), or any other character
TextChars == {"nl", " ", "marker", "x"}

\* A marker, a blank and a word; a line of detail; an empty line; a line of
\* detail
ExampleText == <<"marker", " ", "x", "nl", "x", "nl", "nl", "x">>

Texts == UNION {[1..n -> TextChars] : n \in 0..MaxTextLen} \cup {ExampleText}

\* text.split('\n')
RECURSIVE Split(_)
Split(str) ==
  LET i == IndexOf(str, "nl")
  IN  IF i = -1 THEN <<str>>
      ELSE <<SubSeq(str, 1, i)>> \o Split(SubSeq(str, i + 2, Len(str)))

\* A test that looks at the glyph only
isHeadingGlyphOnly(trimmedLine) ==
  trimmedLine /= <<>> /\ trimmedLine[1] = "marker"

\* trimmedLine.startsWith('<glyph> ') for one of the five glyphs
isHeading(trimmedLine) ==
  Len(trimmedLine) >= 2 /\ trimmedLine[1] = "marker" /\ trimmedLine[2] = " "

\* { type: "paragraph", content: [] }
EmptyParagraph == [text |-> <<>>, strong |-> FALSE]

\* A loop that makes a paragraph of every line
RECURSIVE ParagraphsKeepBlank(_)
ParagraphsKeepBlank(lines) ==
  IF lines = <<>> THEN <<>>
  ELSE <<[text |-> Trim(Head(lines)), strong |-> isHeading(Trim(Head(lines)))]>>
         \o ParagraphsKeepBlank(Tail(lines))

\* The loop over the lines: a line that is empty when trimmed is skipped, any
\* other gives a paragraph with its trimmed text, marked strong for a heading
RECURSIVE Paragraphs(_)
Paragraphs(lines) ==
  IF lines = <<>> THEN <<>>
  ELSE LET trimmedLine == Trim(Head(lines))
       IN  IF trimmedLine = <<>> THEN Paragraphs(Tail(lines))
           ELSE <<[text |-> trimmedLine, strong |-> isHeading(trimmedLine)]>>
                  \o Paragraphs(Tail(lines))

\* textToADF: the content array of the document it returns
textToADF(text) ==
  IF text = <<>> \/ Trim(text) = <<>>
  THEN <<EmptyParagraph>>
  ELSE LET content == Paragraphs(Split(text))
       IN  IF Len(content) = 0 THEN <<EmptyParagraph>> ELSE content

\* No conversion has been made
NoAdf == [called |-> FALSE, text |-> <<>>, doc |-> <<>>]

\* ----------------------------------------------------- content extraction
\* The blocks notion.blocks.children.list returns for a page: each has a type
\* and the text of its rich_text runs joined
BlockTypes == {"paragraph", "heading_1", "heading_2", "heading_3", "bulleted_list_item"}
Blocks == UNION {[1..n -> [type : BlockTypes, text : {"a", "b"}]] : n \in 0..MaxBlocks}

\* The forEach over the blocks that keeps paragraphs only
RECURSIVE paragraphsOnly(_)
paragraphsOnly(blocks) ==
  IF blocks = <<>> THEN <<>>
  ELSE (IF Head(blocks).type = "paragraph" THEN <<Head(blocks).text, "nl">> ELSE <<>>)
         \o paragraphsOnly(Tail(blocks))

\* The forEach over the blocks that keeps paragraphs and the three headings
RECURSIVE paragraphsAndHeadings(_)
paragraphsAndHeadings(blocks) ==
  IF blocks = <<>> THEN <<>>
  ELSE (IF Head(blocks).type \in {"paragraph", "heading_1", "heading_2", "heading_3"}
        THEN <<Head(blocks).text, "nl">> ELSE <<>>)
         \o paragraphsAndHeadings(Tail(blocks))

\* `content` as the entry point of kind `kind` builds it: for "manual" it is
\* built by GET /api/transcripts, from which the dashboard takes the text it
\* posts to /api/process-transcript
extractContent(kind, blocks) ==
  IF kind \in {"hookPage", "manual"}
  THEN paragraphsAndHeadings(blocks)
  ELSE paragraphsOnly(blocks)

\* No extraction has been made
NoExtraction == [kind |-> "none", blocks |-> <<>>, content |-> <<>>]

VARIABLES
  now,                      \* Date.now()
  OPENAI_API_KEY,           \* process.env.OPENAI_API_KEY is set
  SLACK_WEBHOOK_URL,        \* process.env.SLACK_WEBHOOK_URL: "none" or "valid"
  processedTranscriptsData, \* the ledger in memory
  ledgerFile,               \* processed_transcripts.json: <<>> or <<data>>
  processedTranscriptIds,   \* the in-memory Set
  procs,                    \* the handler running in each slot, with its locals
  started,                  \* passes this process has started
  concurrent,               \* a pass has started while another was running
  sourced,                  \* per page: ledger-consulting passes that were given it
  evaluated,                \* pages isTranscriptNew has been evaluated on
  extracts,                 \* per page: times such a pass gave it to autoProcessTranscript
  yielded,                  \* pages such a pass got at least one story for
  marks,                    \* per page: calls of markTranscriptProcessed
  failures,                 \* an external call or a file access of this process has failed
  ms,                       \* Date.now() in milliseconds, as autoProcessTranscript reads it
  calls,                    \* calls of autoProcessTranscript and sendSlackNotification followed
  wrapped,                  \* the last answer of the model: the JSON text in it and what is around it
  rawResponse,              \* completion.choices[0].message.content of that answer
  result,                   \* what autoProcessTranscript parsed and returned for it
  issued,                   \* per story id: the stories stamped with it
  webhookUrl,               \* the webhookUrl argument of the last sendSlackNotification
  slackResult,              \* what that call did and returned
  dispatch,                 \* the loop over the stories of a page that is under way
  listing,                  \* pages GET /api/transcripts awaits the blocks of
  deploy,                   \* the POST /api/deploy-to-jira that is under way
  adf,                      \* the last call of textToADF: its text and its document
  extraction                \* the last extraction of the content of a page

vars == <<now, OPENAI_API_KEY, SLACK_WEBHOOK_URL, processedTranscriptsData, ledgerFile,
          processedTranscriptIds, procs, started, concurrent, sourced, evaluated,
          extracts, yielded, marks, failures, ms, calls, wrapped, rawResponse, result,
          issued, webhookUrl, slackResult, dispatch, listing, deploy, adf,
          extraction>>

\* The variables of single calls of autoProcessTranscript and
\* sendSlackNotification, which the handlers above do not look into
single == <<ms, calls, wrapped, rawResponse, result, issued, webhookUrl, slackResult>>

\* The variables of single dispatch loops, of GET /api/transcripts and of
\* deployments
outbound == <<dispatch, listing, deploy>>

\* The variables of single calls of textToADF and of the extraction of content
texts == <<adf, extraction>>

env == <<now, OPENAI_API_KEY, SLACK_WEBHOOK_URL>>

\* created_time of the pages of the database: page p is created at time p - 1,
\* so that pages exist before, at and after a cutoff date.
created == [p \in Pages |-> p - 1]

\* A slot with no handler.  A running handler has the kind of its entry point,
\* the await it is at (pc), the pages of the query result from the current one
\* on (queue), the stories of the current page not yet answered by the webhook
\* (left), the text its last step gave to autoProcessTranscript (text),
\* whether its last step got an answer of the completion API that could not
\* be parsed (garbled), the transcriptId flag of its request (tid) and its
\* counters:
\* processedCount / newProcessedCount, the stories it got (totalStories,
\* storiesGenerated.length) as nitems and the calls of sendSlackNotification
\* it made (totalSlackSuccess + totalSlackFailed) as nsent.
Idle ==
  [kind |-> "none", pc |-> "idle", queue |-> <<>>, left |-> 0, text |-> NoText,
   garbled |-> FALSE, tid |-> FALSE, processedCount |-> 0, nitems |-> 0, nsent |-> 0, status |-> "none"]

\* The handler calls res.json / res.status(...).json, or the cron callback
\* returns: the outcome is in the slot until Respond, the next step, takes it.
End(pr, status) ==
  [pr EXCEPT !.pc = "respond", !.queue = <<>>, !.left = 0, !.tid = FALSE, !.status = status]

Zero == [p \in Pages |-> 0]
Plus(f, S) == [p \in Pages |-> IF p \in S THEN f[p] + 1 ELSE f[p]]

\* notion.databases.query sorted by 'Created time' descending: the pages that
\* exist now, newest first.
RECURSIVE SortDesc(_)
SortDesc(S) ==
  IF S = {} THEN <<>>
  ELSE LET m == CHOOSE p \in S :
                  \A q \in S : created[q] < created[p] \/ (created[q] = created[p] /\ q <= p)
       IN  <<m>> \o SortDesc(S \ {m})

QueryResult == SortDesc({p \in Pages : created[p] <= now})

\* The loop header of the cron callback and of the webhook without pageId:
\* pages that are not new are skipped with `continue`.
RECURSIVE SkipNotNew(_, _)
SkipNotNew(q, data) ==
  IF q = <<>> THEN <<>>
  ELSE IF isTranscriptNew(data, Head(q), created[Head(q)]) THEN q
       ELSE SkipNotNew(Tail(q), data)

\* The loop moves on to the pages q: the queue at the next await, and the pages
\* isTranscriptNew was evaluated on to get there.  /api/auto-process-all lists
\* the blocks of every page before it tests it.
NextDoc(kind, q, data) ==
  IF kind \in {"cron", "hookAll"}
  THEN LET r == SkipNotNew(q, data)
       IN  [queue |-> r,
            checked |-> IF r = <<>> THEN Range(q) ELSE Range(q) \ Range(Tail(r))]
  ELSE [queue |-> q, checked |-> {}]

\* The pages the handler pr tests with isTranscriptNew when it is through with
\* the page at the head of its queue
AfterDocChecks(pr, data) ==
  IF pr.kind \in {"hookPage", "manual"} THEN {}
  ELSE NextDoc(pr.kind, Tail(pr.queue), data).checked

\* and where that leaves it
AfterDoc(pr, data) ==
  IF pr.kind \in {"hookPage", "manual"}
  THEN End(pr, "ok")
  ELSE LET nd == NextDoc(pr.kind, Tail(pr.queue), data)
       IN  IF nd.queue = <<>>
           THEN End(pr, "ok")
           ELSE [pr EXCEPT !.pc = "fetch", !.queue = nd.queue, !.left = 0]

TypeOK ==
  /\ now \in Times
  /\ OPENAI_API_KEY \in BOOLEAN
  /\ SLACK_WEBHOOK_URL \in {"none", "valid"}
  /\ processedTranscriptsData.cutoffDate \in Times \cup {NoDate}
  /\ Range(processedTranscriptsData.processedIds) \subseteq Pages
  /\ Len(ledgerFile) <= 1
  /\ processedTranscriptIds \subseteq Pages
  /\ \A s \in Slots :
       /\ procs[s].pc \in {"idle", "fetch", "gen", "send", "respond"}
       /\ procs[s].kind \in Kinds \cup {"none"}
       /\ Range(procs[s].queue) \subseteq Pages
       /\ procs[s].left \in 0..MaxStories
  /\ started \in 0..MaxPasses
  /\ concurrent \in BOOLEAN
  /\ sourced \in [Pages -> 0..MaxPasses]
  /\ evaluated \subseteq Pages
  /\ extracts \in [Pages -> 0..MaxPasses]
  /\ yielded \subseteq Pages
  /\ marks \in [Pages -> 0..MaxPasses]
  /\ failures \in BOOLEAN
  /\ ms \in 0..MaxMs
  /\ calls \in 0..MaxCalls
  /\ wrapped.wrapping \in Wrappings \cup {"none"}
  /\ rawResponse \in Seq(STRING)
  /\ result.ok \in BOOLEAN /\ result.null \in BOOLEAN /\ result.ids \subseteq StoryIds
  /\ issued \in [StoryIds -> 0..MaxCalls]
  /\ webhookUrl.isString \in BOOLEAN
  /\ slackResult.success \in BOOLEAN /\ slackResult.fetched \in BOOLEAN
  /\ dispatch.kind \in Dispatchers \cup {"none"}
  /\ dispatch.phase \in {"idle", "post", "delay", "done"}
  /\ dispatch.i \in 0..MaxItems /\ dispatch.n \in 0..MaxItems
  /\ dispatch.inflight \subseteq 1..MaxItems
  /\ dispatch.enabled \in BOOLEAN
  /\ listing \subseteq Pages
  /\ deploy.pc \in {"idle", "auth", "create", "done"}
  /\ deploy.priority \in Priorities
  /\ deploy.payloadPriority \in Priorities \cup {"omitted"}
  /\ adf.called \in BOOLEAN /\ adf.text \in Texts
  /\ extraction.kind \in Kinds \cup {"none"} /\ extraction.blocks \in Blocks

\* The server has started for the first time: no ledger file exists yet.
Init ==
  /\ now \in Times
  /\ OPENAI_API_KEY \in BOOLEAN
  /\ SLACK_WEBHOOK_URL \in {"none", "valid"}
  /\ \E writeOk \in BOOLEAN :
       LET l == IF OPENAI_API_KEY
                THEN loadProcessedTranscripts(<<>>, now, TRUE, writeOk)
                ELSE [mem |-> BlankData, file |-> <<>>]
       IN  /\ ~OPENAI_API_KEY => writeOk
           /\ processedTranscriptsData = l.mem
           /\ ledgerFile = l.file
           /\ failures = ~writeOk
  /\ processedTranscriptIds = {}
  /\ procs = [s \in Slots |-> Idle]
  /\ started = 0
  /\ concurrent = FALSE
  /\ sourced = Zero
  /\ evaluated = {}
  /\ extracts = Zero
  /\ yielded = {}
  /\ marks = Zero
  /\ ms = 0
  /\ calls = 0
  /\ wrapped = NoAnswer
  /\ rawResponse = <<>>
  /\ result = NoResult
  /\ issued = [id \in StoryIds |-> 0]
  /\ webhookUrl = NoUrl
  /\ slackResult = NoSlackResult
  /\ dispatch = NoDispatch
  /\ listing = {}
  /\ deploy = NoDeploy
  /\ adf = NoAdf
  /\ extraction = NoExtraction

\* No handler is in the middle of answering.
Quiet == \A s \in Slots : procs[s].pc /= "respond"

\* Time passes.
Tick ==
  /\ Quiet
  /\ now < MaxTime
  /\ now' = now + 1
  /\ UNCHANGED <<OPENAI_API_KEY, SLACK_WEBHOOK_URL, processedTranscriptsData, ledgerFile,
                 processedTranscriptIds, procs, started, concurrent, sourced, evaluated,
                 extracts, yielded, marks, failures, single, outbound, texts>>

\* The process stops and starts again: module state is back to its initial
\* values and the app.listen callback loads the ledger when the API key is set.
Restart(readOk, writeOk) ==
  LET l == IF OPENAI_API_KEY
           THEN loadProcessedTranscripts(ledgerFile, now, readOk, writeOk)
           ELSE [mem |-> BlankData, file |-> ledgerFile]
      reads == OPENAI_API_KEY /\ ledgerFile /= <<>>
      writes == OPENAI_API_KEY /\
                  (IF ledgerFile = <<>> THEN TRUE
                   ELSE readOk /\ ledgerFile[1].cutoffDate = NoDate)
  IN  /\ Quiet
      /\ ~reads => readOk
      /\ ~writes => writeOk
      /\ processedTranscriptsData' = l.mem
      /\ ledgerFile' = l.file
      /\ processedTranscriptIds' = {}
      /\ procs' = [s \in Slots |-> Idle]
      /\ started' = 0
      /\ concurrent' = FALSE
      /\ sourced' = Zero
      /\ evaluated' = {}
      /\ extracts' = Zero
      /\ yielded' = {}
      /\ marks' = Zero
      /\ failures' = (~readOk \/ ~writeOk)
      /\ UNCHANGED <<env, single, outbound, texts>>

\* ----------------------------------------------------------- handlers
\* What a step of a handler does besides changing its own record pr: by
\* default nothing.
Eff(pr) ==
  [proc |-> pr, mem |-> processedTranscriptsData, file |-> ledgerFile,
   set |-> processedTranscriptIds, ev |-> {}, ex |-> {}, yd |-> {}, mk |-> {},
   fail |-> FALSE]

Apply(s, e) ==
  /\ procs' = [procs EXCEPT ![s] = e.proc]
  /\ processedTranscriptsData' = e.mem
  /\ ledgerFile' = e.file
  /\ processedTranscriptIds' = e.set
  /\ evaluated' = evaluated \cup e.ev
  /\ extracts' = Plus(extracts, e.ex)
  /\ yielded' = yielded \cup e.yd
  /\ marks' = Plus(marks, e.mk)
  /\ failures' = (failures \/ e.fail)
  /\ UNCHANGED <<env, single, outbound, texts>>

\* A step of a handler that is already running
Step(s, e) == Quiet /\ Apply(s, e) /\ UNCHANGED <<started, concurrent, sourced>>

Running(s) == procs[s].pc /= "idle"

\* A request or a cron tick starts a handler, in the first idle slot, on the
\* pages `given` to it by the document store.
Begin(s, e, given) ==
  /\ Quiet
  /\ procs[s].pc = "idle"
  /\ \A t \in Slots : procs[t].pc = "idle" => t \in {s, "s2"}
  /\ started < MaxPasses
  /\ Apply(s, e)
  /\ started' = started + 1
  /\ concurrent' = (concurrent \/ \E t \in Slots : Running(t))
  /\ sourced' = Plus(sourced, given)

\* A start of the loop that queries the database without testing the API key
StartBatchKeyUntested(s, kind, queryOk) ==
  LET pr == [Idle EXCEPT !.kind = kind]
      nd == NextDoc(kind, QueryResult, processedTranscriptsData)
  IN  IF ~queryOk
      THEN Begin(s, [Eff(End(pr, "error")) EXCEPT !.fail = TRUE], {})
      ELSE Begin(s, [Eff(IF nd.queue = <<>> THEN End(pr, "ok")
                         ELSE [pr EXCEPT !.pc = "fetch", !.queue = nd.queue])
                     EXCEPT !.ev = nd.checked],
                 Range(QueryResult))

\* A handler that iterates over the query result starts: the API key is tested,
\* the database is queried and the loop runs to its first await.
StartBatch(s, kind, queryOk) ==
  LET pr == [Idle EXCEPT !.kind = kind]
      nd == NextDoc(kind, QueryResult, processedTranscriptsData)
  IN  /\ ~OPENAI_API_KEY => queryOk
      /\ IF ~OPENAI_API_KEY
         THEN Begin(s, Eff(End(pr, "nokey")), {})
         ELSE IF ~queryOk
         THEN Begin(s, [Eff(End(pr, "error")) EXCEPT !.fail = TRUE], {})
         ELSE Begin(s, [Eff(IF nd.queue = <<>> THEN End(pr, "ok")
                            ELSE [pr EXCEPT !.pc = "fetch", !.queue = nd.queue])
                        EXCEPT !.ev = nd.checked],
                    Range(QueryResult))

\* cron.schedule('*/2 * * * *', ...) fires.
CronTick(s, queryOk) == StartBatch(s, "cron", queryOk)

\* POST /api/auto-process-all
AutoProcessAll(s, queryOk) == StartBatch(s, "all", queryOk)

\* POST /api/webhook/notion-transcript with no pageId
WebhookAll(s, queryOk) == StartBatch(s, "hookAll", queryOk)

\* POST /api/webhook/notion-transcript with the pageId of page p: the page is
\* retrieved and tested, and the handler awaits its blocks.
WebhookPage(s, p, retrieveOk) ==
  LET pr == [Idle EXCEPT !.kind = "hookPage"]
  IN  /\ created[p] <= now
      /\ ~OPENAI_API_KEY => retrieveOk
      /\ IF ~OPENAI_API_KEY
         THEN Begin(s, Eff(End(pr, "nokey")), {})
         ELSE IF ~retrieveOk
         THEN Begin(s, [Eff(End(pr, "error")) EXCEPT !.fail = TRUE], {})
         ELSE Begin(s, [Eff(IF ~isTranscriptNew(processedTranscriptsData, p, created[p])
                            THEN End(pr, "alreadyProcessed")
                            ELSE [pr EXCEPT !.pc = "fetch", !.queue = <<p>>])
                        EXCEPT !.ev = {p}],
                    {p})

\* POST /api/process-transcript with the text c of page p, as the dashboard
\* sends it, and with or without a transcriptId.  The ledger is not consulted.
ProcessTranscript(s, p, c, tid) ==
  LET pr == [Idle EXCEPT !.kind = "manual"]
      text == Flatten("manual", c)
  IN  /\ created[p] <= now
      /\ IF ~OPENAI_API_KEY
         THEN Begin(s, Eff(End(pr, "nokey")), {})
         ELSE IF text.len < MinChars
         THEN Begin(s, Eff(End(pr, "short")), {})
         ELSE IF TooShort(text)
         THEN Begin(s, Eff(End([pr EXCEPT !.text = text], "error")), {})
         ELSE Begin(s, Eff([pr EXCEPT !.pc = "gen", !.queue = <<p>>, !.text = text,
                                      !.tid = tid]), {})

\* notion.blocks.children.list throws: the batch loops catch it and go on to
\* the next page, the webhook for one page answers 500.
BlocksListFailed(s) ==
  LET pr == [procs[s] EXCEPT !.text = NoText, !.garbled = FALSE]
  IN  /\ pr.pc = "fetch"
      /\ Step(s, [Eff(IF pr.kind = "hookPage" THEN End(pr, "error")
                      ELSE AfterDoc(pr, processedTranscriptsData))
                  EXCEPT !.ev = IF pr.kind = "hookPage" THEN {}
                                ELSE AfterDocChecks(pr, processedTranscriptsData),
                         !.fail = TRUE])

\* notion.blocks.children.list answers with content c: the text is flattened
\* and counted, and a page that is new and has more than 50 words is passed to
\* autoProcessTranscript, which returns null for a text under 100 characters
\* and calls the completion API otherwise.
BlocksListed(s, c) ==
  LET pr == [procs[s] EXCEPT !.text = NoText, !.garbled = FALSE]
      page == Head(pr.queue)
      text == Flatten(pr.kind, c)
      tested == IF pr.kind = "all" THEN {page} ELSE {}
      new == IF pr.kind = "all"
             THEN isTranscriptNew(processedTranscriptsData, page, created[page])
             ELSE TRUE
      next == AfterDoc(pr, processedTranscriptsData)
      short == AfterDoc([pr EXCEPT !.text = text], processedTranscriptsData)
      checks == tested \cup AfterDocChecks(pr, processedTranscriptsData)
  IN  /\ pr.pc = "fetch"
      /\ IF new /\ Sufficient(text)
         THEN IF TooShort(text)
              THEN Step(s, [Eff(short) EXCEPT !.ev = checks, !.ex = {page}])
              ELSE Step(s, [Eff([pr EXCEPT !.pc = "gen", !.text = text])
                            EXCEPT !.ev = tested, !.ex = {page}])
         ELSE Step(s, [Eff(next) EXCEPT !.ev = checks])

\* /api/process-transcript is through: the transcriptId, if any, goes into the Set.
ManualEnd(pr) ==
  [Eff(End(pr, "ok")) EXCEPT
     !.set = IF pr.tid THEN processedTranscriptIds \cup {Head(pr.queue)}
             ELSE processedTranscriptIds]

\* A null result that ends the pass
NullResultAborts(pr, data) == End(pr, "error")

\* processResult.stories read without the test for null: a TypeError, which
\* the loops catch per page and the webhook for one page answers with 500
NullResultThrows(pr, data) ==
  IF pr.kind = "hookPage" THEN End(pr, "error") ELSE AfterDoc(pr, data)

\* autoProcessTranscript has returned null to a handler that consults the
\* ledger: `if (processResult && ...)` is false and the handler is through with
\* the page.
NullResult(pr, data) == AfterDoc(pr, data)

\* openai.chat.completions.create answers in slot s.  r is "error" when the call
\* throws, "malformed" when the answer does not parse or holds no stories array,
\* and "parsed" when it parses to k stories.
Completion(s, r, k, writeOk) ==
  LET pr == [procs[s] EXCEPT !.text = NoText, !.garbled = (r = "malformed")]
      page == Head(pr.queue)
      n == IF r = "parsed" THEN k ELSE 0
      \* in the webhook without pageId the map over the stories throws before
      \* storiesGenerated takes them
      got == IF n > 0
             THEN [pr EXCEPT !.processedCount = @ + 1,
                             !.nitems = IF pr.kind = "hookAll" THEN @ ELSE @ + n]
             ELSE pr
      yd == IF n > 0 THEN {page} ELSE {}
      l == markTranscriptProcessed(processedTranscriptsData, ledgerFile, page, now, writeOk)
      saves == n > 0 /\ pr.kind \in {"all", "hookPage"}
                 /\ ~Includes(processedTranscriptsData.processedIds, page)
      posting == [got EXCEPT !.pc = "send", !.left = n, !.nsent = @ + 1]
  IN  /\ procs[s].pc = "gen"
      /\ ~saves => writeOk
      /\ r /= "parsed" => k = 0
      /\ CASE pr.kind = "manual" ->
                IF r /= "parsed"
                THEN Step(s, [Eff(End(pr, "error")) EXCEPT !.fail = (r = "error")])
                ELSE IF SLACK_WEBHOOK_URL /= "none" /\ n > 0
                THEN Step(s, Eff(posting))
                ELSE Step(s, ManualEnd([pr EXCEPT !.nitems = n]))
           [] pr.kind \in LedgerKinds /\ r /= "parsed" ->
                Step(s, [Eff(NullResult(pr, processedTranscriptsData))
                         EXCEPT !.ev = AfterDocChecks(pr, processedTranscriptsData),
                                !.fail = (r = "error")])
           [] pr.kind \in {"cron", "hookAll"} /\ r = "parsed" ->
                \* with stories: `fathomShareUrl` is not defined in these two
                \* handlers, the map over the stories throws a ReferenceError and
                \* the catch of the loop goes on to the next page
                Step(s, [Eff(AfterDoc(got, processedTranscriptsData))
                         EXCEPT !.ev = AfterDocChecks(pr, processedTranscriptsData),
                                !.yd = yd, !.fail = (r = "error")])
           [] pr.kind \in {"all", "hookPage"} /\ r = "parsed" ->
                IF n = 0
                THEN Step(s, [Eff(AfterDoc(pr, processedTranscriptsData))
                              EXCEPT !.fail = (r = "error")])
                ELSE Step(s, [Eff(IF SLACK_WEBHOOK_URL = "none"
                                  THEN AfterDoc(got, l.mem)
                                  ELSE posting)
                              EXCEPT !.mem = l.mem, !.file = l.file, !.yd = yd,
                                     !.mk = {page}, !.fail = ~writeOk])

\* The webhook answers the POST of sendSlackNotification and the pacing delay
\* passes: the next story is posted, or the page is done.
SlackResponse(s) ==
  LET pr == [procs[s] EXCEPT !.text = NoText, !.garbled = FALSE]
  IN  /\ pr.pc = "send"
      /\ IF pr.left > 1
         THEN Step(s, Eff([pr EXCEPT !.left = @ - 1, !.nsent = @ + 1]))
         ELSE IF pr.kind = "manual"
         THEN Step(s, ManualEnd(pr))
         ELSE Step(s, Eff(AfterDoc(pr, processedTranscriptsData)))

\* The response is sent (the cron callback's promise settles): the slot is
\* idle again.  Nothing else happens between the end of a handler and this.
Respond(s) ==
  /\ procs[s].pc = "respond"
  /\ Apply(s, Eff(Idle))
  /\ UNCHANGED <<started, concurrent, sourced>>

\* The `processed` flag GET /api/transcripts reports for a page
processedFlag(p) == p \in processedTranscriptIds

\* GET /api/transcripts answers with the pages that exist and their flags; it
\* reads the Set and changes nothing.
GetTranscripts ==
  /\ Quiet
  /\ \E p \in Pages : created[p] <= now /\ processedFlag(p) \in BOOLEAN
  /\ UNCHANGED vars

Next ==
  \/ Tick
  \/ \E readOk, writeOk \in BOOLEAN : Restart(readOk, writeOk)
  \/ \E s \in Slots, queryOk \in BOOLEAN : CronTick(s, queryOk)
  \/ \E s \in Slots, queryOk \in BOOLEAN : AutoProcessAll(s, queryOk)
  \/ \E s \in Slots, queryOk \in BOOLEAN : WebhookAll(s, queryOk)
  \/ \E s \in Slots, p \in Pages, retrieveOk \in BOOLEAN : WebhookPage(s, p, retrieveOk)
  \/ \E s \in Slots, p \in Pages, c \in Contents, tid \in BOOLEAN : ProcessTranscript(s, p, c, tid)
  \/ \E s \in Slots : BlocksListFailed(s)
  \/ \E s \in Slots, c \in Contents : BlocksListed(s, c)
  \/ \E s \in Slots, r \in {"error", "malformed", "parsed"}, k \in 0..MaxStories,
          writeOk \in BOOLEAN : Completion(s, r, k, writeOk)
  \/ \E s \in Slots : SlackResponse(s)
  \/ \E s \in Slots : Respond(s)
  \/ GetTranscripts

Spec == Init /\ [][Next]_vars

\* ------------------------------------------------- single calls: steps
\* The variables of the server, which a single call leaves alone
server == <<now, OPENAI_API_KEY, SLACK_WEBHOOK_URL, processedTranscriptsData, ledgerFile,
            processedTranscriptIds, procs, started, concurrent, sourced, evaluated,
            extracts, yielded, marks, failures>>

\* A millisecond passes.
Millisecond ==
  /\ ms < MaxMs
  /\ ms' = ms + 1
  /\ UNCHANGED <<server, calls, wrapped, rawResponse, result, issued, webhookUrl,
                 slackResult, outbound, texts>>

\* The model answers a call of autoProcessTranscript with the object text J
\* in wrapping w; the answer is cleaned, parsed and stamped without a pause,
\* the clock moving on by adv while the stories are mapped.
AutoProcessTranscript(J, w, adv) ==
  \E r \in {processAnswer(Wrap(J, w), ms, adv)} :
      /\ calls < MaxCalls
      /\ ms + adv <= MaxMs
      /\ calls' = calls + 1
      /\ wrapped' = [object |-> J, wrapping |-> w]
      /\ rawResponse' = Wrap(J, w)
      /\ result' = r
      /\ issued' = [id \in StoryIds |-> issued[id] + (IF id \in r.ids THEN 1 ELSE 0)]
      /\ ms' = ms + adv
      /\ UNCHANGED <<server, webhookUrl, slackResult, outbound, texts>>

\* sendSlackNotification is called with url and runs to its return.
SendSlackNotification(url, response) ==
  /\ calls < MaxCalls
  /\ ~(url.isString /\ validWebhook(url.text)) => response = "ok"
  /\ calls' = calls + 1
  /\ webhookUrl' = url
  /\ slackResult' = sendSlackNotification(url, response)
  /\ UNCHANGED <<server, ms, wrapped, rawResponse, result, issued, outbound, texts>>

NextSingle ==
  \/ Millisecond
  \/ \E J \in Objects, w \in Wrappings, adv \in 0..1 : AutoProcessTranscript(J, w, adv)
  \/ \E url \in [isString : {TRUE}, text : Urls] \cup {[isString |-> FALSE, text |-> <<>>]},
          response \in {"ok", "404", "500", "throw"} : SendSlackNotification(url, response)

\* The server has started with both environment variables set and no call
\* has been made.
InitSingle == Init /\ now = 0 /\ OPENAI_API_KEY /\ SLACK_WEBHOOK_URL = "valid" /\ ~failures

SpecSingle == InitSingle /\ [][NextSingle]_vars

\* ------------------------------------------------- dispatch loops: steps
\* A handler of kind `kind` has n stories for a page and comes to its loop.
\* Its webhook URL is the slackWebhook of the request or else the environment
\* variable, for the webhook with a pageId the environment variable alone.
\* With a URL the loop is entered and sendSlackNotification posts the first
\* story; without one, or with no story, the handler goes on at once.  Only
\* /api/process-transcript gets here with no story.
StartDispatch(kind, n, slackWebhook) ==
  LET enabled == (kind /= "hookPage" /\ slackWebhook) \/ SLACK_WEBHOOK_URL /= "none"
  IN  /\ dispatch.phase = "idle"
      /\ n = 0 => kind = "manual"
      /\ dispatch' = IF enabled /\ n > 0
                      THEN [NoDispatch EXCEPT !.kind = kind, !.n = n, !.i = 1,
                                              !.phase = "post", !.inflight = {1},
                                              !.enabled = TRUE]
                      ELSE [NoDispatch EXCEPT !.kind = kind, !.n = n, !.phase = "done",
                                              !.enabled = enabled]
      /\ UNCHANGED <<server, single, texts, listing, deploy>>

\* The webhook answers the POST in flight, or the POST fails.
PostAnswered(response) ==
  /\ dispatch.phase = "post"
  /\ dispatch' = answered(dispatch, response)
  /\ UNCHANGED <<server, single, texts, listing, deploy>>

\* The setTimeout of the loop fires: the next story is posted, or the loop is
\* done.
DelayElapsed ==
  /\ dispatch.phase = "delay"
  /\ dispatch' = IF dispatch.i < dispatch.n
                 THEN [dispatch EXCEPT !.phase = "post", !.i = @ + 1,
                                       !.inflight = {dispatch.i + 1}]
                 ELSE [dispatch EXCEPT !.phase = "done"]
  /\ UNCHANGED <<server, single, texts, listing, deploy>>

\* The handler goes on after its loop.
DispatchDone ==
  /\ dispatch.phase = "done"
  /\ dispatch' = NoDispatch
  /\ UNCHANGED <<server, single, texts, listing, deploy>>

\* GET /api/transcripts has the query result: response.results.map starts
\* one async function per page, each of which calls
\* notion.blocks.children.list at once, and Promise.all awaits them all.
TranscriptsQueried ==
  /\ listing = {}
  /\ listing' = Range(QueryResult)
  /\ UNCHANGED <<server, single, texts, dispatch, deploy>>

\* The blocks of page p arrive, or the call for them fails, which the
\* function of the page catches; with the last of them Promise.all resolves
\* and the handler answers.
TranscriptListed(p) ==
  /\ p \in listing
  /\ listing' = listing \ {p}
  /\ UNCHANGED <<server, single, texts, dispatch, deploy>>

NextOutbound ==
  \/ Tick
  \/ \E kind \in Dispatchers, n \in 0..MaxItems, slackWebhook \in BOOLEAN :
        StartDispatch(kind, n, slackWebhook)
  \/ \E response \in Responses : PostAnswered(response)
  \/ DelayElapsed
  \/ DispatchDone
  \/ TranscriptsQueried
  \/ \E p \in Pages : TranscriptListed(p)

\* The server has started with both environment variables set.
InitOutbound == Init /\ OPENAI_API_KEY /\ SLACK_WEBHOOK_URL = "valid" /\ ~failures

\* The server has started with the API key set, with or without a webhook URL
\* in its environment.
InitDispatch == Init /\ OPENAI_API_KEY /\ ~failures

SpecOutbound == InitDispatch /\ [][NextOutbound]_vars

\* ------------------------------------------------- deployment: steps
\* POST /api/deploy-to-jira with a story and a jiraConfig: the URL is cleaned
\* and the credential probe GET /rest/api/3/myself is sent.
DeployToJira(url, priority, complete) ==
  /\ deploy.pc = "idle"
  /\ deploy' = [NoDeploy EXCEPT !.pc = "auth", !.url = cleanUrl(url),
                                !.priority = priority, !.complete = complete,
                                !.sent = <<"myself">>]
  /\ UNCHANGED <<server, single, texts, dispatch, listing>>

\* The probe is answered with status and an HTML or a JSON body.  A status
\* outside 200..299 throws 'JIRA Authentication failed'.  Otherwise the
\* description is built, which throws a TypeError for a story without its
\* arrays, the ticket is put together and POST /rest/api/3/issue is sent.
\* What is thrown is answered with status 500 and the message.
AuthAnswered(status, html) ==
  /\ deploy.pc = "auth"
  /\ deploy' =
       IF probeFailed(status)
       THEN [deploy EXCEPT !.pc = "done", !.authStatus = status, !.html = html,
                           !.status = 500, !.error = "JIRA Authentication failed"]
       ELSE IF ~deploy.complete
       THEN [deploy EXCEPT !.pc = "done", !.authStatus = status, !.html = html,
                           !.status = 500, !.error = "TypeError"]
       ELSE [deploy EXCEPT !.pc = "create", !.authStatus = status, !.html = html,
                           !.payloadPriority = priorityField(deploy.priority),
                           !.sent = Append(@, "issue")]
  /\ UNCHANGED <<server, single, texts, dispatch, listing>>

\* A fetch of the handler fails on the network: the catch answers 500.
FetchThrows ==
  /\ deploy.pc \in {"auth", "create"}
  /\ deploy' = [deploy EXCEPT !.pc = "done", !.status = 500, !.error = "fetch failed"]
  /\ UNCHANGED <<server, single, texts, dispatch, listing>>

\* The creation request is answered: a status outside 200..299 throws
\* 'Ticket creation failed: ...', a body that is no JSON throws in JSON.parse,
\* anything else is answered with success and the key of the ticket.
CreateAnswered(status, json) ==
  /\ deploy.pc = "create"
  /\ deploy' =
       IF probeFailed(status)
       THEN [deploy EXCEPT !.pc = "done", !.status = 500, !.error = "Ticket creation failed"]
       ELSE IF ~json
       THEN [deploy EXCEPT !.pc = "done", !.status = 500, !.error = "SyntaxError"]
       ELSE [deploy EXCEPT !.pc = "done", !.status = 200]
  /\ UNCHANGED <<server, single, texts, dispatch, listing>>

\* The response has gone out.
DeployResponded ==
  /\ deploy.pc = "done"
  /\ deploy' = NoDeploy
  /\ UNCHANGED <<server, single, texts, dispatch, listing>>

NextDeploy ==
  \/ \E url \in JiraUrls, priority \in Priorities, complete \in BOOLEAN :
        DeployToJira(url, priority, complete)
  \/ \E status \in AuthStatuses, html \in BOOLEAN : AuthAnswered(status, html)
  \/ FetchThrows
  \/ \E status \in CreateStatuses, json \in BOOLEAN : CreateAnswered(status, json)
  \/ DeployResponded

SpecDeploy == InitOutbound /\ [][NextDeploy]_vars

\* ---------------------------------------------------- rich text: steps
\* textToADF is called with text and returns its document.
TextToADF(text) ==
  /\ adf' = [called |-> TRUE, text |-> text, doc |-> textToADF(text)]
  /\ UNCHANGED <<server, single, outbound, extraction>>

NextRichText == \E text \in Texts : TextToADF(text)

SpecRichText == InitOutbound /\ [][NextRichText]_vars

\* --------------------------------------------- content extraction: steps
\* The entry point of kind `kind` has the blocks of a page and builds `content`.
ExtractContent(kind, blocks) ==
  /\ extraction' = [kind |-> kind, blocks |-> blocks,
                    content |-> extractContent(kind, blocks)]
  /\ UNCHANGED <<server, single, outbound, adf>>

NextExtract == \E kind \in Kinds, blocks \in Blocks : ExtractContent(kind, blocks)

SpecExtract == InitOutbound /\ [][NextExtract]_vars

\* ------------------------------------------------------------- claims
\* C1: idempotency.  In a process where no external call and no file access has
\* failed and no two passes have overlapped, a page from which a
\* ledger-consulting pass has extracted stories is passed to
\* autoProcessTranscript at most once, and once the passes are over and the page
\* was in the query result of two of them, markTranscriptProcessed has been
\* called for it exactly once.
C1_Idempotency ==
  (~failures /\ ~concurrent) =>
    \A p \in yielded :
      /\ extracts[p] <= 1
      /\ (sourced[p] >= 2 /\ \A s \in Slots : procs[s].pc = "idle") => marks[p] = 1

C3_HappyPath ==
  \A p \in yielded :
    \/ Includes(processedTranscriptsData.processedIds, p)
    \/ \E s \in Slots :
         procs[s].kind \in LedgerKinds /\ procs[s].pc = "send" /\ Head(procs[s].queue) = p

\* C4: when a run of the cron callback ends with SLACK_WEBHOOK_URL set, it has
\* called sendSlackNotification once for every story it got.
C4_PollingDelivers ==
  \A s \in Slots :
    (procs[s].kind = "cron" /\ procs[s].pc = "respond" /\ SLACK_WEBHOOK_URL /= "none")
      => procs[s].nsent = procs[s].nitems

\* C5: ordering.  While a pass that runs alone still has a story of a page to
\* post, the id of the page is not in the ledger.
C5_Ordering ==
  ~concurrent =>
    \A s \in Slots :
      (procs[s].kind \in LedgerKinds /\ procs[s].pc = "send")
        => ~Includes(processedTranscriptsData.processedIds, Head(procs[s].queue))

\* C6: single source of truth.  The processed flag of the transcript listing
\* agrees with membership in processedIds, so a page recorded as processed by
\* any entry point is in the ledger.
C6_SingleSource ==
  \A p \in Pages :
    processedFlag(p) <=> Includes(processedTranscriptsData.processedIds, p)

\* C7: once cutoffDate is set, no step changes it.
C7_CutoffFixed ==
  [][processedTranscriptsData.cutoffDate /= NoDate =>
       processedTranscriptsData'.cutoffDate = processedTranscriptsData.cutoffDate]_vars

\* C8: isTranscriptNew has been evaluated by this process only with cutoffDate set.
C8_InitFirst ==
  evaluated /= {} => processedTranscriptsData.cutoffDate /= NoDate

C10_Eligible ==
  \A p \in evaluated :
    isTranscriptNew(processedTranscriptsData, p, created[p])
      <=> (~Includes(processedTranscriptsData.processedIds, p)
             /\ DateGt(created[p], processedTranscriptsData.cutoffDate))

\* C11: markTranscriptProcessed is an idempotent insert.  processedIds holds
\* each id at most once, and marking an id it holds leaves it as it is.
C11_IdempotentInsert ==
  LET ids == processedTranscriptsData.processedIds
  IN  /\ \A i, j \in DOMAIN ids : ids[i] = ids[j] => i = j
      /\ \A p \in Range(ids), w \in BOOLEAN :
           markTranscriptProcessed(processedTranscriptsData, ledgerFile, p, now, w)
             = [mem |-> processedTranscriptsData, file |-> ledgerFile]

\* markTranscriptProcessed has been called twice for a page that is in
\* processedIds.
C11_Witness ==
  \E p \in Pages :
    marks[p] >= 2 /\ Includes(processedTranscriptsData.processedIds, p)

\* C12: a call of markTranscriptProcessed that inserts an id sets lastUpdated
\* to the time of the call and rewrites the file; unless a file access of this
\* process has failed, the file then holds the ledger as it is in memory.
C12_PersistedOnMutation ==
  [][(/\ \E p \in Pages : marks'[p] = marks[p] + 1
      /\ processedTranscriptsData'.processedIds /= processedTranscriptsData.processedIds)
       => /\ processedTranscriptsData'.lastUpdated = now
          /\ ledgerFile' = <<processedTranscriptsData'>>
               \/ (failures' /\ ledgerFile' = ledgerFile)]_vars

\* A page has been marked, nothing has failed and the file holds the ledger
\* with the id of the page.
C12_Witness ==
  \E p \in Pages :
    /\ marks[p] > 0 /\ ~failures
    /\ Includes(processedTranscriptsData.processedIds, p)
    /\ ledgerFile = <<processedTranscriptsData>>

\* C13: whether or not the file could be written, a call of
\* markTranscriptProcessed leaves the id in processedIds and the handler goes
\* on; a call that changes the file leaves in it every id of processedIds.
C13_SaveFailureTolerated ==
  [][\A p \in Pages :
       marks'[p] = marks[p] + 1 =>
         /\ Includes(processedTranscriptsData'.processedIds, p)
         /\ ledgerFile' /= ledgerFile =>
              ledgerFile'[1].processedIds = processedTranscriptsData'.processedIds
         /\ \A s \in Slots :
              procs'[s] /= procs[s] => procs'[s].status \in {"none", "ok"}]_vars

\* A page has been marked, its id is in processedIds and not in the file, and
\* the handler is at its next await.
C13_Witness ==
  \E p \in Pages :
    /\ marks[p] > 0
    /\ Includes(processedTranscriptsData.processedIds, p)
    /\ ledgerFile /= <<>> /\ ~Includes(ledgerFile[1].processedIds, p)
    /\ \E s \in Slots : procs[s].pc \in {"fetch", "send"}

\* C14: a process whose load could not read the file starts with the blank
\* ledger, and while cutoffDate is unset processedIds holds only ids this
\* process has marked.
C14_LoadFailureDegrades ==
  /\ (/\ OPENAI_API_KEY /\ started = 0 /\ failures
      /\ ledgerFile /= <<>> /\ ledgerFile[1].cutoffDate /= NoDate)
       => processedTranscriptsData = BlankData
  /\ (OPENAI_API_KEY /\ processedTranscriptsData.cutoffDate = NoDate)
       => Range(processedTranscriptsData.processedIds) \subseteq {p \in Pages : marks[p] > 0}

\* After a failed load a pass has a page in autoProcessTranscript.
C14_Witness ==
  /\ OPENAI_API_KEY
  /\ processedTranscriptsData.cutoffDate = NoDate
  /\ \E s \in Slots : procs[s].kind \in LedgerKinds /\ procs[s].pc = "gen"

\* C15: content sufficiency.  A text that has reached the completion API
\* through any entry point has more than 50 whitespace-separated words, and
\* a handler that has asked for the blocks of a page finds the text sufficient
\* exactly if it has more than 50 such words.
C15_ContentSufficiency ==
  /\ \A s \in Slots : procs[s].pc = "gen" => procs[s].text.words > MinWords
  /\ \A s \in Slots, c \in Contents :
       procs[s].pc = "fetch" =>
         (Sufficient(Flatten(procs[s].kind, c))
            <=> Flatten(procs[s].kind, c).words > MinWords)

\* C16: a text the completion API is being called with has at least 100
\* characters, on every path.
C16_NoCallForShortText ==
  \A s \in Slots : procs[s].pc = "gen" => procs[s].text.len >= MinChars

\* A handler has just given a text of more than 50 words and under 100
\* characters to autoProcessTranscript and is not in a call of the completion
\* API.
C16_Witness ==
  \E s \in Slots :
    /\ procs[s].text /= NoText /\ procs[s].text.len < MinChars
    /\ procs[s].pc /= "gen"
    /\ procs[s].processedCount = 0 /\ procs[s].nitems = 0

C18_DefensiveParse ==
  (calls > 0 /\ wrapped.wrapping \in {"bare", "json", "fence", "prose"}) =>
    /\ JSONparse(wrapped.object).ok
    /\ result.ok
    /\ result.value = JSONparse(wrapped.object).value

\* An answer in a json code fence has been parsed to an object with stories.
C18_Witness ==
  /\ wrapped.wrapping = "json"
  /\ rawResponse /= wrapped.object
  /\ result.ok /\ ~result.null /\ result.ids /= {}

\* C19: no two stories, of one call of autoProcessTranscript or of several,
\* are stamped with the same id.
C19_UniqueIds == \A id \in StoryIds : issued[id] <= 1

\* C20: a call of sendSlackNotification with a URL that does not start with
\* https://hooks.slack.com/services/ has not called fetch and has returned
\* success false with an error.
C20_InvalidWebhook ==
  (slackResult.called
     /\ ~(webhookUrl.isString /\ UrlStartsWith(webhookUrl.text, SlackPrefix))) =>
    /\ ~slackResult.fetched
    /\ ~slackResult.success
    /\ slackResult.error /= "none"

\* sendSlackNotification has returned for a URL on another host that
\* has the Slack host as the beginning of its name.
C20_Witness ==
  /\ slackResult.called
  /\ webhookUrl.isString
  /\ Len(webhookUrl.text) > 1 /\ webhookUrl.text[2] = "hooks.slack.com.example.org"
  /\ ~slackResult.success

\* C21: for every story the webhook has answered 404 for, the result has
\* success false and an error that names 404 and has been put on the story,
\* and a loop that is done has a result for each of its stories, in every
\* entry point whose loop runs.
C21_Webhook404 ==
  /\ \A j \in DOMAIN dispatch.responses :
       dispatch.responses[j] = "404" =>
         /\ ~dispatch.results[j].success
         /\ dispatch.results[j].error = "HTTP 404"
         /\ dispatch.attached[j]
  /\ (dispatch.phase = "done" /\ dispatch.enabled) => Len(dispatch.results) = dispatch.n

\* C22: at most one POST of a dispatch is in flight, and the POST for a
\* story is issued in a step that starts with none in flight: for the first
\* story when the loop is entered, for story j > 1 when the pacing delay after
\* the response for story j - 1 has elapsed.
C22_Sequential ==
  [][/\ Cardinality(dispatch'.inflight) <= 1
     /\ \A j \in dispatch'.inflight \ dispatch.inflight :
          /\ dispatch.inflight = {}
          /\ j = 1 => dispatch.phase = "idle"
          /\ j > 1 => dispatch.phase = "delay" /\ Len(dispatch.results) = j - 1]_vars

\* The POST for the second story is in flight, after the response for the
\* first one.
C22_Witness ==
  /\ dispatch.phase = "post"
  /\ dispatch.inflight = {2}
  /\ Len(dispatch.results) = 1

\* C23: within one request no call for a page is issued while a call for
\* another page is outstanding: GET /api/transcripts never awaits the
\* blocks of more than one page.
C23_NoFanOut == Cardinality(listing) <= 1

\* C24: at no time are two passes started by the scheduler in progress.
C24_NoScheduledOverlap ==
  \A s, t \in Slots :
    (s /= t /\ procs[s].kind = "cron" /\ procs[t].kind = "cron") =>
      ~(procs[s].pc \in {"fetch", "gen", "send"} /\ procs[t].pc \in {"fetch", "gen", "send"})

\* C25: no two passes are between the eligibility check and
\* markTranscriptProcessed for the same page at the same time, that is, have
\* both found the page at the head of their queue new and not yet marked it or
\* given it up.  /api/auto-process-all tests a page after it has its blocks,
\* the other handlers before.
C25_SingleWriter ==
  \A s, t \in Slots :
    (/\ s /= t
     /\ procs[s].kind \in LedgerKinds /\ procs[t].kind \in LedgerKinds
     /\ procs[s].pc \in (IF procs[s].kind = "all" THEN {"gen"} ELSE {"fetch", "gen"})
     /\ procs[t].pc \in (IF procs[t].kind = "all" THEN {"gen"} ELSE {"fetch", "gen"}))
    => Head(procs[s].queue) /= Head(procs[t].queue)

\* C26: a deployment whose credential probe was answered 401 has failed with
\* the authentication error and has sent neither a project request nor the
\* creation request.
C26_AuthFailure ==
  (deploy.pc /= "idle" /\ deploy.authStatus = 401) =>
    /\ deploy.pc = "done"
    /\ deploy.status = 500
    /\ deploy.error = "JIRA Authentication failed"
    /\ deploy.sent = <<"myself">>

\* A deployment has ended on a probe answered 401 with a JSON body.
C26_Witness ==
  deploy.pc = "done" /\ deploy.authStatus = 401 /\ ~deploy.html /\ deploy.status = 500

\* C27: the creation request is sent only after the credential probe and
\* then the project probe.
C27_ThreeSteps ==
  (\E i \in DOMAIN deploy.sent : deploy.sent[i] = "issue") =>
    deploy.sent = <<"myself", "project", "issue">>

\* C28: a failed credential probe is answered with the authentication error
\* exactly if its status is 401 and its body is not HTML, the other failures
\* being of other kinds.
C28_Classification ==
  (deploy.pc = "done" /\ deploy.sent = <<"myself">> /\ probeFailed(deploy.authStatus)) =>
    (deploy.error = "JIRA Authentication failed"
       <=> (deploy.authStatus = 401 /\ ~deploy.html))

\* C29: a creation request that has been sent carries the priority of the
\* story exactly if it is one of the five names, and no priority field
\* otherwise; and whatever the priority, a deployment of a complete story
\* whose probe succeeded has sent the creation request.
C29_Priority ==
  /\ (\E i \in DOMAIN deploy.sent : deploy.sent[i] = "issue") =>
       deploy.payloadPriority =
         (IF deploy.priority \in {"Highest", "High", "Medium", "Low", "Lowest"}
          THEN deploy.priority ELSE "omitted")
  /\ (deploy.pc \in {"create", "done"} /\ deploy.complete
        /\ deploy.authStatus \in 200..299) =>
       \E i \in DOMAIN deploy.sent : deploy.sent[i] = "issue"

\* The creation request for a story of priority Critical has been sent
\* without a priority field.
C29_Witness ==
  /\ deploy.pc = "create"
  /\ deploy.priority = "Critical"
  /\ deploy.payloadPriority = "omitted"
  /\ deploy.sent = <<"myself", "issue">>

\* C30: a step of a pass over the query result that is at a page either
\* stays with that page, or goes on to the next page of the result that the
\* loop does not skip, or, when there is none, ends the pass with its summary:
\* no outcome of a call for a page, a failure included, ends the pass early.
C30_ErrorIsolation ==
  [][\A s \in Slots :
       (/\ procs[s].kind \in {"cron", "all", "hookAll"}
        /\ procs[s].pc \in {"fetch", "gen", "send"}
        /\ procs'[s] /= procs[s]
        /\ procs'[s].kind = procs[s].kind)
       => LET rest == NextDoc(procs[s].kind, Tail(procs[s].queue),
                              processedTranscriptsData').queue
          IN  \/ procs'[s].queue = procs[s].queue
              \/ rest /= <<>> /\ procs'[s].pc = "fetch" /\ procs'[s].queue = rest
              \/ rest = <<>> /\ procs'[s].pc = "respond" /\ procs'[s].status = "ok"]_vars

\* The only pass since the server started is at the older page after a call
\* for the newer page has failed: the ledger was loaded and saved without a
\* failure and nothing has been marked, so the failure is of that call.
C30_Witness ==
  \E s \in Slots :
    /\ procs[s].kind \in {"cron", "all", "hookAll"}
    /\ procs[s].pc = "fetch"
    /\ procs[s].queue = <<1>>
    /\ started = 1
    /\ \A t \in Slots \ {s} : procs[t].pc = "idle"
    /\ ledgerFile = <<processedTranscriptsData>>
    /\ processedTranscriptsData.cutoffDate /= NoDate
    /\ \A p \in Pages : marks[p] = 0
    /\ failures

\* C31: while OPENAI_API_KEY is not set, every entry point answers (or, for
\* the cron callback, returns) at its test of the key: no handler is ever at
\* an await of the document store, of the completion API or of the webhook, no
\* page was handed out by the document store, tested, extracted or marked, no
\* notification was sent, and the ledger in memory and on disk and the Set are
\* as the start of the process left them.
C31_MissingKey ==
  ~OPENAI_API_KEY =>
    /\ \A s \in Slots :
         /\ procs[s].pc \in {"idle", "respond"}
         /\ procs[s].pc = "respond" => procs[s].status = "nokey"
         /\ procs[s].nsent = 0 /\ procs[s].nitems = 0
    /\ sourced = Zero /\ extracts = Zero /\ marks = Zero
    /\ evaluated = {} /\ yielded = {}
    /\ processedTranscriptsData = BlankData
    /\ ledgerFile = <<>>
    /\ processedTranscriptIds = {}
    /\ ~failures

\* Without the key, a second request is being answered after a first one was
C31_Witness ==
  /\ ~OPENAI_API_KEY
  /\ started = 2
  /\ \E s \in Slots : procs[s].pc = "respond" /\ procs[s].kind \in LedgerKinds
                       /\ procs[s].status = "nokey"

\* C32: the document textToADF returns has one paragraph per line of the
\* text that holds something other than blanks, in the order of the lines,
\* each with the text of its line from the first to the last piece that is
\* not a blank; a text without such a line gives one paragraph, and that
\* paragraph is empty.  A line starts at every piece that is no blank and has
\* only blanks between it and the line break before it (or the start).
C32_Paragraphs ==
  adf.called =>
    LET text == adf.text
        doc == adf.doc
        sameLine(i, k) == \A m \in i..k : text[m] /= "nl"
        starts == {i \in DOMAIN text :
                     /\ ~IsWs(text[i])
                     /\ \A j \in 1..(i - 1) : sameLine(j, i) => text[j] = " "}
        end(i) == CHOOSE k \in i..Len(text) :
                     /\ sameLine(i, k) /\ text[k] /= " "
                     /\ \A m \in (k + 1)..Len(text) : sameLine(i, m) => text[m] = " "
        nth(n) == CHOOSE i \in starts : Cardinality({j \in starts : j < i}) = n - 1
    IN  /\ Len(doc) >= 1
        /\ starts = {} => doc = <<EmptyParagraph>>
        /\ starts /= {} =>
             /\ Len(doc) = Cardinality(starts)
             /\ \A n \in 1..Len(doc) : doc[n].text = SubSeq(text, nth(n), end(nth(n)))

\* A text of two lines with an empty line between them has been converted to
\* two paragraphs
C32_Witness ==
  /\ adf.called
  /\ adf.text = <<"x", "nl", "nl", "x">>
  /\ Len(adf.doc) = 2

\* C33 as stated: a paragraph is strong if and only if the first piece of
\* its line that is no blank is a marker glyph; and the example text gives
\* three paragraphs of which only the first is strong.
C33_StrongIffGlyph ==
  adf.called =>
    /\ \A n \in DOMAIN adf.doc :
         adf.doc[n].strong <=> (adf.doc[n].text /= <<>> /\ adf.doc[n].text[1] = "marker")
    /\ adf.text = ExampleText =>
         /\ Len(adf.doc) = 3
         /\ adf.doc[1].strong /\ ~adf.doc[2].strong /\ ~adf.doc[3].strong

\* C33 amended: a paragraph is strong if and only if its trimmed line starts
\* with a marker glyph that is followed by a blank; and the example text
\* gives three paragraphs of which only the first is strong.
C33_StrongIffGlyphAndBlank ==
  adf.called =>
    /\ \A n \in DOMAIN adf.doc :
         adf.doc[n].strong <=>
           /\ Len(adf.doc[n].text) >= 2
           /\ adf.doc[n].text[1] = "marker"
           /\ adf.doc[n].text[2] = " "
    /\ adf.text = ExampleText =>
         /\ Len(adf.doc) = 3
         /\ adf.doc[1].strong /\ ~adf.doc[2].strong /\ ~adf.doc[3].strong

\* The example text has been converted
C33_Witness ==
  /\ adf.called
  /\ adf.text = ExampleText
  /\ adf.doc[1] = [text |-> <<"marker", " ", "x">>, strong |-> TRUE]

\* C34 as stated: whatever the entry point, the content built from the
\* blocks of a page is the text of each paragraph and each heading of level 1
\* to 3, in order, each followed by a line break, and nothing of other blocks.
C34_SameFlattenedText ==
  extraction.kind /= "none" =>
    LET kept == SelectSeq(extraction.blocks,
                          LAMBDA b : b.type \in {"paragraph", "heading_1", "heading_2",
                                                 "heading_3"})
    IN  /\ Len(extraction.content) = 2 * Len(kept)
        /\ \A n \in DOMAIN kept :
             /\ extraction.content[2 * n - 1] = kept[n].text
             /\ extraction.content[2 * n] = "nl"

\* C35: when no handler is running and nothing has failed since the process
\* started, every page markTranscriptProcessed was called for, by however
\* many passes and however they interleaved, is in the processedIds of the
\* ledger file exactly once.
C35_NoLostUpdate ==
  (~failures /\ \A s \in Slots : procs[s].pc = "idle") =>
    \A p \in Pages :
      marks[p] > 0 =>
        /\ ledgerFile /= <<>>
        /\ Cardinality({i \in DOMAIN ledgerFile[1].processedIds :
                          ledgerFile[1].processedIds[i] = p}) = 1

\* Two passes that overlapped have both called markTranscriptProcessed for
\* the same page, and have finished
C35_Witness ==
  /\ ~failures
  /\ concurrent
  /\ \A s \in Slots : procs[s].pc = "idle"
  /\ \E p \in Pages : marks[p] = 2 /\ Includes(ledgerFile[1].processedIds, p)

\* C36: a step in which markTranscriptProcessed is called for a page is a
\* step of a pass that had tested the page with isTranscriptNew, had found
\* more than 50 words in its text and gets at least one story for it in this
\* step; so a page whose extraction fails or gives no story is not marked.
C36_LedgerSoundness ==
  [][\A p \in Pages :
       marks'[p] > marks[p] =>
         \E s \in Slots :
           /\ procs[s].pc = "gen" /\ Head(procs[s].queue) = p
           /\ p \in evaluated
           /\ procs[s].text.words > MinWords
           /\ procs'[s].nitems > procs[s].nitems
           /\ Includes(processedTranscriptsData'.processedIds, p)]_vars

\* C37: the counts a pass over the query result reports move with the
\* ledger.  In every step of /api/auto-process-all or of the webhook without
\* pageId, processedCount grows by the number of ids the step adds to
\* processedIds, and the count of stories grows only in a step that adds an
\* id; the counts start at 0, so at the end they are those of the pages this
\* pass added.
C37_SummaryAccuracy ==
  [][\A s \in Slots :
       (/\ procs[s].kind \in {"all", "hookAll"}
        /\ procs'[s] /= procs[s]
        /\ procs'[s].kind = procs[s].kind)
       => LET added == Len(processedTranscriptsData'.processedIds)
                         - Len(processedTranscriptsData.processedIds)
          IN  /\ procs'[s].processedCount - procs[s].processedCount = added
              /\ procs'[s].nitems /= procs[s].nitems => added = 1]_vars

\* C38: in /api/process-transcript and /api/auto-process-all the counts of
\* successful and of failed notifications add up to the calls of
\* sendSlackNotification made so far, and when the loop of a page is done
\* these are as many as the stories of the page if the handler had a webhook
\* URL, and none if it had not.
C38_NotificationCounts ==
  dispatch.kind \in {"manual", "all"} =>
    /\ dispatch.success + dispatch.failed = Len(dispatch.results)
    /\ dispatch.phase = "done" =>
         Len(dispatch.results) = (IF dispatch.enabled THEN dispatch.n ELSE 0)

\* /api/auto-process-all is through with two stories, one notification has
\* succeeded and one has failed
C38_Witness ==
  /\ dispatch.kind = "all" /\ dispatch.phase = "done" /\ dispatch.enabled
  /\ dispatch.n = 2 /\ dispatch.success = 1 /\ dispatch.failed = 1

\* C39: a request to the webhook with the id of a page that is not eligible
\* (its id is in processedIds, or it was created at or before the cutoff date)
\* is answered with alreadyProcessed in the step that retrieves the page, and
\* that step changes neither the ledger in memory, nor its file, nor the Set,
\* and gives no page to the extraction, to the webhook or to
\* markTranscriptProcessed; the handler awaits no call after it.
C39_NotEligibleNoEffect ==
  [][\A s \in Slots, p \in Pages :
       (/\ procs[s].pc = "idle"
        /\ procs'[s].kind = "hookPage"
        /\ sourced'[p] > sourced[p]
        /\ \/ Includes(processedTranscriptsData.processedIds, p)
           \/ DateLeq(created[p], processedTranscriptsData.cutoffDate))
       => /\ procs'[s].pc = "respond"
          /\ procs'[s].status = "alreadyProcessed"
          /\ procs'[s].queue = <<>>
          /\ procs'[s].nsent = 0 /\ procs'[s].nitems = 0
          /\ processedTranscriptsData' = processedTranscriptsData
          /\ ledgerFile' = ledgerFile
          /\ processedTranscriptIds' = processedTranscriptIds
          /\ extracts' = extracts /\ marks' = marks /\ yielded' = yielded]_vars

\* The webhook is answering alreadyProcessed for a page that is in
\* processedIds and was created after the cutoff date
C39_Witness ==
  \E s \in Slots, p \in Pages :
    /\ procs[s].kind = "hookPage" /\ procs[s].pc = "respond"
    /\ procs[s].status = "alreadyProcessed"
    /\ Includes(processedTranscriptsData.processedIds, p)
    /\ DateGt(created[p], processedTranscriptsData.cutoffDate)
    /\ sourced[p] > 0
    /\ \A q \in Pages \ {p} : sourced[q] = 0

====
